---- MODULE Spec2Model ----
(***************************************************************************)
(* Dense matrices of libraries/math/include/Matrix.h: the two layout       *)
(* specialisations of MatrixBase, the const and mutable references, and    *)
(* the owning Matrix with its two constructors.                            *)
(*                                                                         *)
(* A buffer (std::vector<ElementType> _data) is a function from            *)
(* 0..size-1 to element values; a pointer into it is an offset.  size_t    *)
(* values stay far below 2^64 within the bounds, so size_t arithmetic is   *)
(* integer arithmetic here.                                                *)
(***************************************************************************)
EXTENDS Integers, Sequences, FiniteSets, TLC

\* ---- bounds -------------------------------------------------------------
MaxRows == 2
MaxCols == 2
MaxValue == 1
MaxInc == 3

Values == 0..MaxValue
Layouts == {"columnMajor", "rowMajor"}
\* outcome of reading memory outside every buffer: a value like any other,
\* or one that no element was ever given
Indeterminate == MaxValue + 1
\* the values an increment that no constructor initialised can hold
IndeterminateIncrements == 0..MaxInc

VARIABLES mats, view, res, corrupt
\* mats    : the owning Matrix objects, by name
\* view    : the block reference the run takes (a sequence of length 0 or 1)
\* res     : the operation executed last, with its arguments and its result
\* corrupt : TRUE once an element was stored outside the owned buffer
vars == <<mats, view, res, corrupt>>

\* ---- MatrixBase ----------------------------------------------------------
\* MatrixBase<columnMajor>(numRows, numColumns) : _columnIncrement(numRows)
ColumnIncrementInitSwapped(numRows, numColumns) == numColumns
ColumnIncrementInit(numRows, numColumns) == numRows

\* MatrixBase<rowMajor>(numRows, numColumns) : _rowIncrement(numColumns)
RowIncrementInit(numRows, numColumns) == numColumns

IncrementInit(layout, numRows, numColumns) ==
    IF layout = "columnMajor" THEN ColumnIncrementInit(numRows, numColumns)
                              ELSE RowIncrementInit(numRows, numColumns)

\* GetIndex of the two specialisations
GetIndexSwapped(m, rowIndex, columnIndex) ==
    IF m.layout = "columnMajor" THEN rowIndex * m.increment + columnIndex
                                ELSE rowIndex + columnIndex * m.increment
GetIndex(m, rowIndex, columnIndex) ==
    IF m.layout = "columnMajor" THEN rowIndex + columnIndex * m.increment
                                ELSE rowIndex * m.increment + columnIndex

\* the row and column indices inside a reference's dimensions
ValidRows(m) == 0..(m.numRows - 1)
ValidColumns(m) == 0..(m.numColumns - 1)

\* ---- element access ------------------------------------------------------
\* the outcomes of reading position p of a buffer
Deref(data, p) == IF p \in DOMAIN data THEN {data[p]} ELSE Values \cup {Indeterminate}

\* ConstMatrixReference::operator(): _pData[GetIndex(rowIndex, columnIndex)]
ConstElement(m, data, rowIndex, columnIndex) ==
    Deref(data, m.pData + GetIndex(m, rowIndex, columnIndex))

\* MatrixReference::operator(): the position the returned reference designates
ElementRefInputOrder(m, rowIndex, columnIndex) == m.pData + rowIndex * m.numColumns + columnIndex
ElementRef(m, rowIndex, columnIndex) == m.pData + GetIndex(m, rowIndex, columnIndex)

\* assignment through the reference returned by MatrixReference::operator()
Store(st, p, v) ==
    IF p \in DOMAIN st.data THEN [data |-> [st.data EXCEPT ![p] = v], corrupt |-> st.corrupt]
                            ELSE [data |-> st.data, corrupt |-> TRUE]

\* ---- Matrix constructors -------------------------------------------------
\* std::vector<ElementType>(n): n value-initialised elements
AllocOffByOne(n) == [p \in 0..n |-> 0]
Alloc(n) == [p \in 0..(n - 1) |-> 0]

NewMatrix(layout, numRows, numColumns) ==
    [layout |-> layout, numRows |-> numRows, numColumns |-> numColumns,
     increment |-> IncrementInit(layout, numRows, numColumns),
     pData |-> 0, data |-> Alloc(numRows * numColumns)]

\* the nested initializer lists: at least one row (list.begin() is dereferenced)
RowsOfLength(n) == [1..n -> Values]
LiteralRows == UNION {RowsOfLength(n) : n \in 0..MaxCols}
Literals == UNION {[1..n -> LiteralRows] : n \in 1..MaxRows}

\* the loops of the literal constructor, from element j of row i onwards
\* (i and j count from 0 as in the code, the sequences from 1)
RECURSIVE FillFrom(_, _, _, _, _)
FillFrom(m, list, i, j, st) ==
    IF i >= Len(list) THEN st
    ELSE IF j >= Len(list[i + 1]) THEN FillFrom(m, list, i + 1, 0, st)
    ELSE FillFrom(m, list, i, j + 1, Store(st, ElementRef(m, i, j), list[i + 1][j + 1]))

\* Matrix(std::initializer_list<std::initializer_list<ElementType>> list)
LiteralMatrix(layout, list) ==
    LET m  == NewMatrix(layout, Len(list), Len(list[1]))
        st == FillFrom(m, list, 0, 0, [data |-> m.data, corrupt |-> FALSE])
    IN  [matrix |-> [m EXCEPT !.data = st.data], corrupt |-> st.corrupt]

\* ---- references ----------------------------------------------------------
\* the reference a handle stands for: an owning matrix, or the block "view"
IsLive(h) == IF h = "view" THEN Len(view) = 1 ELSE h \in DOMAIN mats
Ref(h) == IF h = "view" THEN view[1] ELSE mats[h]
\* the buffer a reference points into
Buffer(h) == IF h = "view" THEN mats[view[1].owner].data ELSE mats[h].data
Owner(h) == IF h = "view" THEN view[1].owner ELSE h

\* the result of M(r, c) read through handle h
Read(h, rowIndex, columnIndex) == ConstElement(Ref(h), Buffer(h), rowIndex, columnIndex)

\* ConstMatrixReference::operator==
Equals(a, b) ==
    IF a.numRows # b.numRows \/ a.numColumns # b.numColumns THEN FALSE ELSE TRUE

\* operator== takes a ConstMatrixReference<ElementType, Layout> of the
\* receiver's own Layout: only operands of one layout can be compared
Comparable(a, b) == a.layout = b.layout

\* ConstVectorReference<ElementType, VectorOrientation::column>()
DefaultVectorReference == [size |-> 0, pData |-> 0, increment |-> 1, owner |-> "none"]

\* GetColumn(index)
GetColumnResult(m, index) == DefaultVectorReference

\* the elements of a vector reference, read from the buffer it points into
VectorElements(vec) ==
    [k \in 0..(vec.size - 1) |->
        IF vec.owner \in DOMAIN mats
        THEN Deref(mats[vec.owner].data, vec.pData + k * vec.increment)
        ELSE {Indeterminate}]

\* ---- state machine -------------------------------------------------------
Init ==
    /\ mats = <<>>
    /\ view = <<>>
    /\ res = [op |-> "none"]
    /\ corrupt = FALSE

Dims == (0..MaxRows) \X (0..MaxCols)

\* Matrix(numRows, numColumns)
ConstructDims(id) ==
    /\ ~corrupt
    /\ id \notin DOMAIN mats
    /\ \E layout \in Layouts, d \in Dims :
          /\ mats' = (id :> NewMatrix(layout, d[1], d[2])) @@ mats
          /\ res' = [op |-> "dims", id |-> id, numRows |-> d[1], numColumns |-> d[2]]
    /\ UNCHANGED <<view, corrupt>>

\* Matrix(list)
ConstructLiteral(id) ==
    /\ ~corrupt
    /\ id \notin DOMAIN mats
    /\ \E layout \in Layouts, list \in Literals :
          LET r == LiteralMatrix(layout, list)
          IN  /\ mats' = (id :> r.matrix) @@ mats
              /\ corrupt' = r.corrupt
              /\ res' = [op |-> "literal", id |-> id, list |-> list, error |-> "none"]
    /\ UNCHANGED view

\* h(rowIndex, columnIndex) = v through MatrixReference::operator(), at a
\* position inside h's dimensions
Write(h) ==
    /\ ~corrupt
    /\ IsLive(h)
    /\ \E rowIndex \in ValidRows(Ref(h)), columnIndex \in ValidColumns(Ref(h)), v \in Values :
          LET st == Store([data |-> Buffer(h), corrupt |-> FALSE],
                          ElementRef(Ref(h), rowIndex, columnIndex), v)
          IN  /\ mats' = [mats EXCEPT ![Owner(h)].data = st.data]
              /\ corrupt' = st.corrupt
              /\ res' = [op |-> "write", h |-> h, row |-> rowIndex,
                         column |-> columnIndex, value |-> v]
    /\ UNCHANGED view

\* M.GetBlock(firstRow, firstColumn, numRows, numColumns), the block inside M.
\* The reference is built from (pointer, numRows, numColumns): the only
\* constructor taking a pointer is RectangularMatrixBase's, which sets no
\* increment, and _increment names no member, so the block's increment is
\* whatever its storage holds.
GetBlock(id) ==
    /\ ~corrupt
    /\ id \in DOMAIN mats
    /\ Len(view) = 0
    /\ \E firstRow \in 0..mats[id].numRows, firstColumn \in 0..mats[id].numColumns :
       \E numRows \in 0..(mats[id].numRows - firstRow),
          numColumns \in 0..(mats[id].numColumns - firstColumn),
          inc \in IndeterminateIncrements :
          view' = << [layout |-> mats[id].layout,
                      numRows |-> numRows, numColumns |-> numColumns,
                      increment |-> inc,
                      pData |-> mats[id].pData + GetIndex(mats[id], firstRow, firstColumn),
                      owner |-> id, firstRow |-> firstRow, firstColumn |-> firstColumn] >>
    /\ res' = [op |-> "block", id |-> id]
    /\ UNCHANGED <<mats, corrupt>>

\* h.GetColumn(index), index a column of h
GetColumn(h) ==
    /\ ~corrupt
    /\ IsLive(h)
    /\ \E index \in ValidColumns(Ref(h)) :
          res' = [op |-> "column", h |-> h, index |-> index,
                  vec |-> GetColumnResult(Ref(h), index)]
    /\ UNCHANGED <<mats, view, corrupt>>

\* a == b
Compare(a, b) ==
    /\ ~corrupt
    /\ IsLive(a) /\ IsLive(b)
    /\ Comparable(Ref(a), Ref(b))
    /\ res' = [op |-> "compare", a |-> a, b |-> b, result |-> Equals(Ref(a), Ref(b))]
    /\ UNCHANGED <<mats, view, corrupt>>

\* the construction of one matrix "A"
NextConstruct ==
    \/ ConstructDims("A")
    \/ ConstructLiteral("A")

SpecConstruct == Init /\ [][NextConstruct]_vars

\* one matrix "A", its block and every operation on them
Next ==
    \/ ConstructDims("A")
    \/ ConstructLiteral("A")
    \/ \E h \in {"A", "view"} : Write(h)
    \/ GetBlock("A")
    \/ \E h \in {"A", "view"} : GetColumn(h)
    \/ \E a, b \in {"A", "view"} : Compare(a, b)

Spec == Init /\ [][Next]_vars

\* two matrices "A" and "B" and their comparison
NextEq ==
    \/ \E id \in {"A", "B"} : ConstructDims(id)
    \/ \E id \in {"A", "B"} : ConstructLiteral(id)
    \/ \E a, b \in {"A", "B"} : Compare(a, b)

SpecEq == Init /\ [][NextEq]_vars

\* ---- properties -----------------------------------------------------------
\* a and b have the same dimensions and the same element at every position
SameContents(a, b) ==
    /\ Ref(a).numRows = Ref(b).numRows
    /\ Ref(a).numColumns = Ref(b).numColumns
    /\ \A r \in ValidRows(Ref(a)), c \in ValidColumns(Ref(a)) : Read(a, r, c) = Read(b, r, c)

\* C1: a comparison A == B returns true exactly when A and B have the same
\* number of rows, the same number of columns and equal elements at every
\* position; two views of equal dimensions that differ in an element compare
\* unequal.
C1_EqualsIffSameContents ==
    res.op = "compare" => (res.result <=> SameContents(res.a, res.b))

\* C2: every element (i, j) of a block taken from a matrix M at
\* (firstRow, firstColumn) is M's element (firstRow + i, firstColumn + j): the
\* block addresses the buffer with M's increment.
C2_BlockElementIsParentElement ==
    Len(view) = 1 =>
        LET b == view[1]
        IN  \A i \in ValidRows(b), j \in ValidColumns(b) :
                Read("view", i, j) = Read(b.owner, b.firstRow + i, b.firstColumn + j)

\* a literal some row of which is not as long as its first row
Malformed(list) == \E i \in 1..Len(list) : Len(list[i]) # Len(list[1])

\* C3: constructing a Matrix from a literal with a row whose length differs
\* from the first row's reports MalformedLiteral, produces no matrix and
\* stores nothing outside the positions of the matrix.
C3_MalformedLiteralRejected ==
    (res.op = "literal" /\ Malformed(res.list)) =>
        /\ res.error = "MalformedLiteral"
        /\ res.id \notin DOMAIN mats
        /\ ~corrupt

\* C4: GetColumn(c) has NumRows() elements and its r-th element is M(r, c).
C4_ColumnIsMatrixColumn ==
    res.op = "column" =>
        /\ res.vec.size = Ref(res.h).numRows
        /\ \A r \in ValidRows(Ref(res.h)) :
               /\ r \in DOMAIN VectorElements(res.vec)
               /\ VectorElements(res.vec)[r] = Read(res.h, r, res.index)

\* C5: for a constructed matrix of dimensions (numRows, numColumns), GetIndex(r, c)
\* is r + c * numRows when column-major and r * numColumns + c when
\* row-major, for every r and c.
C5_IndexFormula ==
    \A id \in DOMAIN mats : \A r \in 0..MaxRows, c \in 0..MaxCols :
        GetIndex(mats[id], r, c) =
            IF mats[id].layout = "columnMajor" THEN r + c * mats[id].numRows
                                               ELSE r * mats[id].numColumns + c

C5_Witness ==
    /\ res.op = "dims"
    /\ mats[res.id].layout = "columnMajor"
    /\ mats[res.id].numRows = 2
    /\ mats[res.id].numColumns = 1

\* C6: on every owning matrix GetIndex is injective on the valid index pairs
\* and maps each of them into [0, numRows * numColumns), the positions of the
\* owned buffer.
C6_IndexInjectiveInBuffer ==
    \A id \in DOMAIN mats :
        LET m == mats[id]
            valid == ValidRows(m) \X ValidColumns(m)
        IN  /\ DOMAIN m.data = 0..(m.numRows * m.numColumns - 1)
            /\ \A p \in valid : GetIndex(m, p[1], p[2]) \in 0..(m.numRows * m.numColumns - 1)
            /\ \A p, q \in valid :
                   GetIndex(m, p[1], p[2]) = GetIndex(m, q[1], q[2]) => p = q

C6_Witness ==
    \E id \in DOMAIN mats :
        /\ mats[id].layout = "columnMajor"
        /\ mats[id].numRows = 1
        /\ mats[id].numColumns = 2

\* C7: right after v is written at a valid (r, c) through a matrix or a mutable
\* view, reading (r, c) through the same view returns v, reading the position
\* through a block of the matrix that contains it returns v, and a value
\* written through a block is read back through its parent.
C7_WriteReadRoundTrip ==
    (res.op = "write" /\ ~corrupt) =>
        /\ Read(res.h, res.row, res.column) = {res.value}
        /\ (/\ res.h # "view"
            /\ Len(view) = 1
            /\ view[1].owner = res.h
            /\ res.row - view[1].firstRow \in ValidRows(view[1])
            /\ res.column - view[1].firstColumn \in ValidColumns(view[1]))
           => Read("view", res.row - view[1].firstRow, res.column - view[1].firstColumn)
                  = {res.value}
        /\ res.h = "view"
           => Read(view[1].owner, view[1].firstRow + res.row, view[1].firstColumn + res.column)
                  = {res.value}

\* C8: a Matrix built from a well-formed literal L has as many rows as L, as
\* many columns as L's first row is long, and M(i, j) = L[i][j] everywhere; a
\* column-major matrix keeps L[i][j] at buffer position i + j * numRows.
C8_LiteralContents ==
    (res.op = "literal" /\ ~Malformed(res.list)) =>
        LET m == mats[res.id]
            L == res.list
        IN  /\ ~corrupt
            /\ m.numRows = Len(L)
            /\ m.numColumns = Len(L[1])
            /\ \A i \in 0..(Len(L) - 1), j \in 0..(Len(L[1]) - 1) :
                   /\ Read(res.id, i, j) = {L[i + 1][j + 1]}
                   /\ m.layout = "columnMajor" =>
                          /\ i + j * Len(L) \in DOMAIN m.data
                          /\ m.data[i + j * Len(L)] = L[i + 1][j + 1]

C8_Witness ==
    /\ res.op = "literal"
    /\ ~Malformed(res.list)
    /\ mats[res.id].layout = "columnMajor"
    /\ Len(res.list) = 2
    /\ Len(res.list[1]) = 2
    /\ res.list[1][2] # res.list[2][1]

\* C9: Matrix(numRows, numColumns) owns a buffer of exactly
\* numRows * numColumns elements, has the increment of its own dimensions and
\* reads 0 at every (r, c), also when a dimension is zero.
C9_DimsConstructor ==
    res.op = "dims" =>
        LET m == mats[res.id]
        IN  /\ m.numRows = res.numRows
            /\ m.numColumns = res.numColumns
            /\ Cardinality(DOMAIN m.data) = res.numRows * res.numColumns
            /\ m.increment = IF m.layout = "columnMajor" THEN res.numRows ELSE res.numColumns
            /\ \A r \in ValidRows(m), c \in ValidColumns(m) : Read(res.id, r, c) = {0}

C9_Witness ==
    /\ res.op = "dims"
    /\ res.numRows = 2
    /\ res.numColumns = 1

\* C10: equality is reflexive, symmetric and independent of the layout: two
\* matrices with the same logical contents, whatever their layouts, can be
\* compared and compare equal.
C10_EqualityLayoutIndependent ==
    \A a, b \in DOMAIN mats :
        SameContents(a, b) =>
            /\ Comparable(Ref(a), Ref(b))
            /\ Equals(Ref(a), Ref(b))
            /\ Equals(Ref(b), Ref(a))

====
